---- MODULE Spec2Model ----
(***************************************************************************)
(* Model of tracker-proxy (src/src/main.rs): an origin-gated caching       *)
(* reverse proxy.  One request is one task; the tasks share the moka cache *)
(* built in main().  Strings that the code inspects character by character *)
(* (origins) are sequences of one-character strings; strings that are only *)
(* concatenated and compared (paths, queries, cache keys) are TLA+ strings.*)
(* Option<T> is a sequence of length 0 (None) or 1 (Some).                  *)
(***************************************************************************)
EXTENDS Integers, Sequences, FiniteSets, Bags, TLC

VARIABLES
    now,        \* the clock the cache reads, in units of one TTL tick
    cache,      \* AppState.cache: key -> entry, for the keys it holds
    req,        \* the request tasks in flight: a bag of task records
    out,        \* what is happening on a connection: a response written, or a drop
    upstream,   \* number of upstream calls started so far
    lastInsert, \* per key the cache holds: the insert that completed last, and its response
    probe,      \* is_allowed_origin under test: its arguments
    verdict     \* is_allowed_origin under test: its result

vars == <<now, cache, req, out, upstream, lastInsert, probe, verdict>>

-----------------------------------------------------------------------------
(* Bounds *)

NSlots == 2          \* request tasks that can be in flight together
MaxCalls == 2        \* upstream calls started in one behaviour
MaxHost == 3         \* longest host part of a probed origin

-----------------------------------------------------------------------------
(* Option helpers *)

None == <<>>
Some(x) == <<x>>
IsSome(opt) == Len(opt) = 1
Unwrap(opt) == opt[1]

-----------------------------------------------------------------------------
(* Config (struct Config, from_env): a deployment with a TTL of one clock   *)
(* tick and room for one entry, so that expiry and eviction both happen    *)

HTTPS == <<"h", "t", "t", "p", "s", ":", "/", "/">>
HTTP == <<"h", "t", "t", "p", ":", "/", "/">>

config ==
    [ upstream_url          |-> "https://up",
      api_key               |-> "key",
      cache_ttl_seconds     |-> 1,
      cache_max_capacity    |-> 1,
      allowed_origin_suffix |-> <<".", "a", "g">>,
      allowed_origin_exact  |-> <<"a", "g">> ]

-----------------------------------------------------------------------------
(* is_allowed_origin *)

\* str::strip_prefix: Some(rest) when s starts with p, else None
strip_prefix(s, p) ==
    IF Len(s) >= Len(p) /\ SubSeq(s, 1, Len(p)) = p
    THEN Some(SubSeq(s, Len(p) + 1, Len(s)))
    ELSE None

\* s.split(':').next(): the piece before the first ':' (all of s if none)
RECURSIVE split_first(_)
split_first(s) ==
    IF s = <<>> THEN <<>>
    ELSE IF Head(s) = ":" THEN <<>>
    ELSE <<Head(s)>> \o split_first(Tail(s))

ends_with(s, p) ==
    Len(s) >= Len(p) /\ SubSeq(s, Len(s) - Len(p) + 1, Len(s)) = p

\* the origin test with only the "https://" prefix stripped
is_allowed_origin_https_only(origin, cfg) ==
    LET s1 == strip_prefix(origin, HTTPS)
        host0 == IF IsSome(s1) THEN Unwrap(s1) ELSE origin
        host == split_first(host0)
    IN  host = cfg.allowed_origin_exact \/ ends_with(host, cfg.allowed_origin_suffix)

is_allowed_origin(origin, cfg) ==
    LET s1 == strip_prefix(origin, HTTPS)
        s2 == IF IsSome(s1) THEN s1 ELSE strip_prefix(origin, HTTP)
        host0 == IF IsSome(s2) THEN Unwrap(s2) ELSE origin
        host == split_first(host0)
    IN  host = cfg.allowed_origin_exact \/ ends_with(host, cfg.allowed_origin_suffix)

-----------------------------------------------------------------------------
(* Requests *)

GET == "GET"
POST == "POST"
OPTIONS == "OPTIONS"
Methods == {GET, POST, OPTIONS}

GoodOrigin == HTTPS \o <<"x", ".", "a", "g">> \o <<":", "8">>
EvilOrigin == HTTPS \o <<"e", "v">>

\* An Origin header value: visible ASCII text, or bytes to_str() rejects
OriginHeaders ==
    { None,
      Some([ascii |-> TRUE, text |-> GoodOrigin]),
      Some([ascii |-> TRUE, text |-> EvilOrigin]),
      Some([ascii |-> FALSE, text |-> <<"\\xe9">>]) }

Uris ==
    { [path |-> "/a", query |-> None],
      [path |-> "/a", query |-> Some("q")],
      [path |-> "/_health", query |-> None],
      [path |-> "/_stats", query |-> None] }

\* what the upstream can answer to a call, whatever the URL
UpstreamReplies ==
    { [status |-> 199, content_type |-> None, body |-> "b1"],
      [status |-> 200, content_type |-> None, body |-> "b1"],
      [status |-> 299, content_type |-> Some("text/plain"), body |-> "b2"],
      [status |-> 300, content_type |-> Some("text/plain"), body |-> "b2"] }

-----------------------------------------------------------------------------
(* The cache: moka::future::Cache<String, CachedResponse> as built in main *)

max_capacity == config.cache_max_capacity
time_to_live == config.cache_ttl_seconds

\* the clock is followed for one TTL: long enough for an entry to expire
MaxTime == time_to_live

\* CachedResponse
CachedResponse(status, body, content_type) ==
    [status |-> status, body |-> body, content_type |-> content_type]

Value(e) == CachedResponse(e.status, e.body, e.content_type)

\* expiry that still serves an entry exactly one TTL old
is_expired_late(e, t) == t > e.at + time_to_live

\* an entry is expired once a whole TTL has passed since it was written
is_expired(e, t) == t >= e.at + time_to_live

\* cache.get(&key): the value, unless absent or expired
cache_get(c, k, t) ==
    IF k \in DOMAIN c /\ ~is_expired(c[k], t) THEN Some(Value(c[k])) ELSE None

\* an insert that leaves the content type of the entry it replaces
cache_insert_keep_type(c, k, v, t) ==
    LET e == [status |-> v.status, body |-> v.body,
              content_type |-> IF k \in DOMAIN c THEN c[k].content_type
                               ELSE v.content_type,
              at |-> t, admitted |-> (k \in DOMAIN c /\ c[k].admitted)]
    IN  [x \in DOMAIN c \cup {k} |-> IF x = k THEN e ELSE c[x]]

\* cache.insert(key, value): written at once, with a fresh TTL; a new key
\* waits for the eviction policy to admit it, an existing one keeps its place
cache_insert(c, k, v, t) ==
    LET e == [status |-> v.status, body |-> v.body, content_type |-> v.content_type,
              at |-> t, admitted |-> (k \in DOMAIN c /\ c[k].admitted)]
    IN  [x \in DOMAIN c \cup {k} |-> IF x = k THEN e ELSE c[x]]

cache_remove(c, k) == [x \in DOMAIN c \ {k} |-> c[x]]

\* cache.entry_count(): the entries the policy has admitted
entry_count(c) == Cardinality({k \in DOMAIN c : c[k].admitted})

\* cache.weighted_size(): every entry weighs 1 (no weigher is configured)
weighted_size(c) == entry_count(c)

-----------------------------------------------------------------------------
(* Responses *)

\* a response with no header set
Response(status, body) ==
    [ status |-> status, body |-> body, content_type |-> None,
      cache_control |-> None, x_cache |-> None,
      allow_origin |-> None, allow_methods |-> None, allow_headers |-> None,
      max_age |-> None, vary |-> None, stats |-> None ]

Forbidden == Response(403, "Origin not allowed")

\* a preflight answer that allows every origin
Preflight_wildcard(origin_str) ==
    [ Response(204, "") EXCEPT
        !.allow_origin = Some(<<"*">>),
        !.allow_methods = Some("GET, OPTIONS"),
        !.allow_headers = Some("Content-Type"),
        !.max_age = Some("86400") ]

Preflight(origin_str) ==
    [ Response(204, "") EXCEPT
        !.allow_origin = Some(origin_str),
        !.allow_methods = Some("GET, OPTIONS"),
        !.allow_headers = Some("Content-Type"),
        !.max_age = Some("86400") ]

\* an upstream failure reported as an internal error
BadGateway_as_500(message) ==
    [ Response(500, "{\"error\": \"" \o message \o "\"}") EXCEPT
        !.content_type = Some("application/json") ]

BadGateway(message) ==
    [ Response(502, "{\"error\": \"" \o message \o "\"}") EXCEPT
        !.content_type = Some("application/json") ]

MethodNotAllowed == Response(405, "")

\* build_response that labels every response a MISS
build_response_always_miss(cached, from_cache, cfg) ==
    [ Response(cached.status, cached.body) EXCEPT
        !.content_type = cached.content_type,
        !.cache_control = Some("public, max-age=" \o ToString(cfg.cache_ttl_seconds)),
        !.x_cache = Some("MISS") ]

\* build_response that states the default TTL, not the configured one
build_response_default_ttl(cached, from_cache, cfg) ==
    [ Response(cached.status, cached.body) EXCEPT
        !.content_type = cached.content_type,
        !.cache_control = Some("public, max-age=600"),
        !.x_cache = Some(IF from_cache THEN "HIT" ELSE "MISS") ]

\* build_response
build_response(cached, from_cache, cfg) ==
    [ Response(cached.status, cached.body) EXCEPT
        !.content_type = cached.content_type,
        !.cache_control = Some("public, max-age=" \o ToString(cfg.cache_ttl_seconds)),
        !.x_cache = Some(IF from_cache THEN "HIT" ELSE "MISS") ]

\* local_health
local_health ==
    [ Response(200, "OK") EXCEPT !.content_type = Some("text/plain; charset=utf-8") ]

\* cache_stats that reports the current count as the capacity
cache_stats_count_as_capacity(c, cfg) ==
    LET stats == [ entry_count   |-> entry_count(c),
                   weighted_size |-> weighted_size(c),
                   ttl_seconds   |-> cfg.cache_ttl_seconds,
                   max_capacity  |-> entry_count(c) ]
    IN  [ Response(200, "{\"entry_count\":" \o ToString(stats.entry_count)
                        \o ",\"max_capacity\":" \o ToString(stats.max_capacity)
                        \o ",\"ttl_seconds\":" \o ToString(stats.ttl_seconds)
                        \o ",\"weighted_size\":" \o ToString(stats.weighted_size) \o "}")
          EXCEPT !.content_type = Some("application/json"), !.stats = Some(stats) ]

\* cache_stats
cache_stats(c, cfg) ==
    LET stats == [ entry_count   |-> entry_count(c),
                   weighted_size |-> weighted_size(c),
                   ttl_seconds   |-> cfg.cache_ttl_seconds,
                   max_capacity  |-> cfg.cache_max_capacity ]
    IN  [ Response(200, "{\"entry_count\":" \o ToString(stats.entry_count)
                        \o ",\"max_capacity\":" \o ToString(stats.max_capacity)
                        \o ",\"ttl_seconds\":" \o ToString(stats.ttl_seconds)
                        \o ",\"weighted_size\":" \o ToString(stats.weighted_size) \o "}")
          EXCEPT !.content_type = Some("application/json"), !.stats = Some(stats) ]

-----------------------------------------------------------------------------
(* cors_middleware *)

\* the Origin header as the middleware reads it: None when absent or not text
origin_of(header) ==
    IF IsSome(header) /\ Unwrap(header).ascii THEN Some(Unwrap(header).text) ELSE None

\* a gate that checks the origin of preflights only
cors_gate_preflight_only(method, origin, cfg) ==
    IF method = OPTIONS
    THEN IF IsSome(origin) /\ is_allowed_origin(Unwrap(origin), cfg)
         THEN Some(Preflight(Unwrap(origin)))
         ELSE Some(Forbidden)
    ELSE None

\* the part before next.run(): Some(terminal response), or None to go on
cors_gate(method, origin, cfg) ==
    IF method = OPTIONS
    THEN IF IsSome(origin) /\ is_allowed_origin(Unwrap(origin), cfg)
         THEN Some(Preflight(Unwrap(origin)))
         ELSE Some(Forbidden)
    ELSE IF IsSome(origin) /\ ~is_allowed_origin(Unwrap(origin), cfg)
         THEN Some(Forbidden)
         ELSE None

\* HeaderValue::from_str: fails on control characters
header_from_str(s) ==
    IF \A i \in 1..Len(s) : s[i] \notin {"\n", "\r"} THEN Some(s) ELSE None

\* CORS headers that allow every origin
cors_headers_wildcard(response, origin, cfg) ==
    IF IsSome(origin) /\ is_allowed_origin(Unwrap(origin), cfg)
    THEN [ response EXCEPT
             !.allow_origin = Some(<<"*">>),
             !.allow_methods = Some("GET, OPTIONS"),
             !.vary = Some("Origin") ]
    ELSE response

\* the part after next.run(): the CORS headers put on the inner response
cors_headers(response, origin, cfg) ==
    IF IsSome(origin) /\ is_allowed_origin(Unwrap(origin), cfg)
    THEN [ response EXCEPT
             !.allow_origin = IF IsSome(header_from_str(Unwrap(origin)))
                              THEN header_from_str(Unwrap(origin))
                              ELSE Some(<<"*">>),
             !.allow_methods = Some("GET, OPTIONS"),
             !.vary = Some("Origin") ]
    ELSE response

-----------------------------------------------------------------------------
(* proxy_all *)

query_string(uri) == IF IsSome(uri.query) THEN "?" \o Unwrap(uri.query) ELSE ""

\* a cache key that leaves the query out
cache_key_path_only(uri) == uri.path

cache_key(uri) == uri.path \o query_string(uri)

upstream_url(uri, cfg) == cfg.upstream_url \o uri.path \o query_string(uri)

\* the caching test with its upper bound off by one
is_cacheable_upto300(status) == status >= 200 /\ status <= 300

is_cacheable(status) == status >= 200 /\ status < 300

\* the routes of main: the two named paths, the fallback for the rest
Routed(uri) == uri.path \in {"/_health", "/_stats"}

Keys == {cache_key(u) : u \in {v \in Uris : ~Routed(v)}}

-----------------------------------------------------------------------------
(* State *)

\* a task at the start of proxy_all
NewTask(origin, uri) ==
    [ pc |-> "lookup", origin |-> origin, uri |-> uri, url |-> "",
      calls |-> 0, miss |-> "", status |-> 0, content_type |-> None, body |-> "" ]

NoProbe == [origin |-> <<>>, exact |-> <<>>, suffix |-> <<>>]

Init ==
    /\ now = 0
    /\ cache = <<>>
    /\ req = EmptyBag
    /\ out = None
    /\ upstream = 0
    /\ lastInsert = [k \in Keys |-> None]
    /\ probe = NoProbe
    /\ verdict = "unset"

Tasks == BagToSet(req)

\* A response on its way out, with what is known of the request it answers:
\* the method and Origin header as received (sync), when it is answered before
\* its task ever waits; the origin the middleware holds; the cache key, when
\* proxy_all answers; the number of upstream calls the request made.
Answer(sync, origin, key, calls, response) ==
    Some([ sync |-> sync, origin |-> origin, key |-> key, calls |-> calls,
           dropped |-> "", resp |-> response ])

\* the connection of task t went away while t was at t.pc: no response
Dropped(t) ==
    Some([ sync |-> None, origin |-> t.origin, key |-> Some(cache_key(t.uri)),
           calls |-> t.calls, dropped |-> t.pc, resp |-> Response(0, "") ])

\* the response goes out through the second half of cors_middleware
Sent(sync, t, key, response) ==
    Answer(sync, t.origin, key, t.calls, cors_headers(response, t.origin, config))

\* task t ends
Drop(t) == req (-) SetToBag({t})

\* task t goes on as u
Step(t, u) == Drop(t) (+) SetToBag({u})

\* an insert of v under k replaces a different value
Overwrites(k, v) == k \in DOMAIN cache /\ Value(cache[k]) # v

\* a response that leaves its task in flight
Respond_keep(t, response) ==
    /\ out' = Sent(None, t, Some(cache_key(t.uri)), response)
    /\ req' = req

Respond(t, response) ==
    /\ out' = Sent(None, t, Some(cache_key(t.uri)), response)
    /\ req' = Drop(t)

-----------------------------------------------------------------------------
(* Actions *)

\* proxy_all, lines 148-159, for a new task t: the cache lookup answers a
\* hit; on a miss the upstream call is started
Lookup(sync, t) ==
    LET cached == cache_get(cache, cache_key(t.uri), now)
    IN  IF IsSome(cached)
        THEN /\ out' = Sent(sync, t, Some(cache_key(t.uri)),
                            build_response(Unwrap(cached), TRUE, config))
             /\ UNCHANGED <<req, upstream>>
        ELSE /\ BagCardinality(req) < NSlots
             /\ upstream < MaxCalls
             /\ upstream' = upstream + 1
             /\ req' = req (+) SetToBag({[t EXCEPT !.pc = "send", !.calls = @ + 1,
                        !.url = upstream_url(t.uri, config),
                        !.miss = IF cache_key(t.uri) \in DOMAIN cache
                                 THEN "expired" ELSE "absent"]})
             /\ UNCHANGED out

\* a router whose fallback serves GET alone
Receive_get_only(method, header, uri) ==
    LET origin == origin_of(header)
        gate == cors_gate(method, origin, config)
        sync == Some([method |-> method, header |-> header])
    IN  /\ out = None
        /\ IF IsSome(gate)
           THEN /\ out' = Answer(sync, origin, None, 0, Unwrap(gate))
                /\ UNCHANGED <<req, upstream>>
           ELSE IF Routed(uri) \/ method # GET
           THEN /\ out' = Sent(sync, NewTask(origin, uri), None,
                               IF method # GET THEN MethodNotAllowed
                               ELSE IF uri.path = "/_health" THEN local_health
                               ELSE cache_stats(cache, config))
                /\ UNCHANGED <<req, upstream>>
           ELSE Lookup(sync, NewTask(origin, uri))
        /\ UNCHANGED <<now, cache, lastInsert, probe, verdict>>

\* A request arrives and is handled up to the first await that waits for the
\* network: cors_middleware up to next.run(), then the router; /_health and
\* /_stats answer at once, the fallback runs proxy_all up to send().
Receive(method, header, uri) ==
    LET origin == origin_of(header)
        gate == cors_gate(method, origin, config)
        sync == Some([method |-> method, header |-> header])
    IN  /\ out = None
        /\ IF IsSome(gate)
           THEN /\ out' = Answer(sync, origin, None, 0, Unwrap(gate))
                /\ UNCHANGED <<req, upstream>>
           ELSE IF Routed(uri)
           THEN /\ out' = Sent(sync, NewTask(origin, uri), None,
                               IF method # GET THEN MethodNotAllowed
                               ELSE IF uri.path = "/_health" THEN local_health
                               ELSE cache_stats(cache, config))
                /\ UNCHANGED <<req, upstream>>
           ELSE Lookup(sync, NewTask(origin, uri))
        /\ UNCHANGED <<now, cache, lastInsert, probe, verdict>>

\* send().await returns Ok: status and headers are in
SendOk(t, reply) ==
    /\ out = None
    /\ t.pc = "send"
    /\ req' = Step(t, [t EXCEPT !.pc = "body", !.miss = "",
                                !.status = reply.status,
                                !.content_type = reply.content_type])
    /\ UNCHANGED <<now, cache, out, upstream, lastInsert, probe, verdict>>

\* a failed send() that is tried again
SendErr_retry(t) ==
    /\ out = None
    /\ t.pc = "send"
    /\ IF t.calls < 2 /\ upstream < MaxCalls
       THEN /\ req' = Step(t, [t EXCEPT !.calls = @ + 1])
            /\ upstream' = upstream + 1
            /\ UNCHANGED out
       ELSE /\ Respond(t, BadGateway("Upstream request failed"))
            /\ UNCHANGED upstream
    /\ UNCHANGED <<now, cache, lastInsert, probe, verdict>>

\* send().await returns Err
SendErr(t) ==
    /\ out = None
    /\ t.pc = "send"
    /\ Respond(t, BadGateway("Upstream request failed"))
    /\ UNCHANGED <<now, cache, upstream, lastInsert, probe, verdict>>

\* bytes().await returns Ok: a 2xx result goes on to the insert, any other
\* is answered as it is
BodyOk(t, reply) ==
    LET body == reply.body
        cached == CachedResponse(t.status, body, t.content_type)
    IN  /\ out = None
        /\ t.pc = "body"
        /\ reply.status = t.status
        /\ reply.content_type = t.content_type
        /\ IF is_cacheable(t.status)
           THEN /\ req' = Step(t, [t EXCEPT !.pc = "insert", !.body = body])
                /\ UNCHANGED out
           ELSE Respond(t, build_response(cached, FALSE, config))
        /\ UNCHANGED <<now, cache, upstream, lastInsert, probe, verdict>>

\* bytes().await returns Err
BodyErr(t) ==
    /\ out = None
    /\ t.pc = "body"
    /\ Respond(t, BadGateway("Failed to read response"))
    /\ UNCHANGED <<now, cache, upstream, lastInsert, probe, verdict>>

\* an insert that leaves an entry that is already there
Insert_if_absent(t) ==
    LET cached == CachedResponse(t.status, t.body, t.content_type)
        key == cache_key(t.uri)
        response == build_response(cached, FALSE, config)
    IN  /\ out = None
        /\ t.pc = "insert"
        /\ IF key \in DOMAIN cache
           THEN UNCHANGED <<cache, lastInsert>>
           ELSE /\ cache' = cache_insert(cache, key, cached, now)
                /\ lastInsert' = [lastInsert EXCEPT ![key] =
                       Some([value |-> cached, over |-> Overwrites(key, cached), url |-> t.url,
                             resp |-> Some([status |-> response.status,
                                            body |-> response.body])])]
        /\ Respond(t, response)
        /\ UNCHANGED <<now, upstream, probe, verdict>>

\* cache.insert().await completes, and the response is built
Insert(t) ==
    LET cached == CachedResponse(t.status, t.body, t.content_type)
        key == cache_key(t.uri)
        response == build_response(cached, FALSE, config)
    IN  /\ out = None
        /\ t.pc = "insert"
        /\ cache' = cache_insert(cache, key, cached, now)
        /\ lastInsert' = [lastInsert EXCEPT ![key] =
               Some([value |-> cached, over |-> Overwrites(key, cached), url |-> t.url,
                     resp |-> Some([status |-> response.status, body |-> response.body])])]
        /\ Respond(t, response)
        /\ UNCHANGED <<now, upstream, probe, verdict>>

\* a drop that may write what the task holds so far, the body still missing
Cancel_partial(t) ==
    LET cached == CachedResponse(t.status, t.body, t.content_type)
        key == cache_key(t.uri)
    IN  /\ out = None
        /\ req' = Drop(t)
        /\ \/ UNCHANGED <<cache, lastInsert>>
           \/ /\ t.pc \in {"body", "insert"}
              /\ cache' = cache_insert(cache, key, cached, now)
              /\ lastInsert' = [lastInsert EXCEPT ![key] =
                     Some([value |-> cached, over |-> Overwrites(key, cached), url |-> t.url,
                           resp |-> None])]
        /\ out' = Dropped(t)
        /\ UNCHANGED <<now, upstream, probe, verdict>>

\* The connection is dropped and the task with it, at one of its awaits.
\* Dropped inside cache.insert(), the write has happened or it has not.
Cancel(t) ==
    LET cached == CachedResponse(t.status, t.body, t.content_type)
        key == cache_key(t.uri)
    IN  /\ out = None
        /\ req' = Drop(t)
        /\ \/ UNCHANGED <<cache, lastInsert>>
           \/ /\ t.pc = "insert"
              /\ cache' = cache_insert(cache, key, cached, now)
              /\ lastInsert' = [lastInsert EXCEPT ![key] =
                     Some([value |-> cached, over |-> Overwrites(key, cached), url |-> t.url,
                           resp |-> None])]
        /\ out' = Dropped(t)
        /\ UNCHANGED <<now, upstream, probe, verdict>>

\* time passes
Tick ==
    /\ out = None
    /\ now < MaxTime
    /\ now' = now + 1
    /\ UNCHANGED <<cache, req, out, upstream, lastInsert, probe, verdict>>

\* housekeeping that admits every new key and evicts nothing
Admit_unbounded(k) ==
    /\ out = None
    /\ k \in DOMAIN cache
    /\ ~cache[k].admitted
    /\ cache' = [cache EXCEPT ![k].admitted = TRUE]
    /\ UNCHANGED <<now, req, out, upstream, lastInsert, probe, verdict>>

\* The cache's housekeeping admits a newly written key: into free room, or
\* in place of a victim, or not at all (the new key is dropped instead).
Admit(k) ==
    /\ out = None
    /\ k \in DOMAIN cache
    /\ ~cache[k].admitted
    /\ IF entry_count(cache) < max_capacity
       THEN cache' = [cache EXCEPT ![k].admitted = TRUE]
       ELSE \/ cache' = cache_remove(cache, k)
            \/ \E v \in DOMAIN cache :
                 /\ cache[v].admitted
                 /\ cache' = [cache_remove(cache, v) EXCEPT ![k].admitted = TRUE]
    /\ lastInsert' = [x \in Keys |-> IF x \in DOMAIN cache' THEN lastInsert[x] ELSE None]
    /\ UNCHANGED <<now, req, out, upstream, probe, verdict>>

\* The cache's housekeeping drops an expired entry
Expire(k) ==
    /\ out = None
    /\ k \in DOMAIN cache
    /\ is_expired(cache[k], now)
    /\ cache' = cache_remove(cache, k)
    /\ lastInsert' = [lastInsert EXCEPT ![k] = None]
    /\ UNCHANGED <<now, req, out, upstream, probe, verdict>>

\* the response in hand has been written to its connection
Deliver ==
    /\ out # None
    /\ out' = None
    /\ UNCHANGED <<now, cache, req, upstream, lastInsert, probe, verdict>>

Next ==
    \/ \E m \in Methods, h \in OriginHeaders, u \in Uris : Receive(m, h, u)
    \/ \E t \in Tasks, reply \in UpstreamReplies : SendOk(t, reply)
    \/ \E t \in Tasks : SendErr(t)
    \/ \E t \in Tasks, reply \in UpstreamReplies : BodyOk(t, reply)
    \/ \E t \in Tasks : BodyErr(t)
    \/ \E t \in Tasks : Insert(t)
    \/ \E t \in Tasks : Cancel(t)
    \/ Tick
    \/ \E k \in Keys : Admit(k)
    \/ \E k \in Keys : Expire(k)
    \/ Deliver

Spec == Init /\ [][Next]_vars

-----------------------------------------------------------------------------
(* Scheduling.  The runtime polls a task that can go on, and the client is  *)
(* built with a 30 s timeout, so a call in flight comes back with Ok or     *)
(* Err; a response in hand is written to its connection.                   *)

\* the await that task t waits at returns
Progress(t) ==
    \/ \E reply \in UpstreamReplies : SendOk(t, reply)
    \/ SendErr(t)
    \/ \E reply \in UpstreamReplies : BodyOk(t, reply)
    \/ BodyErr(t)
    \/ Insert(t)

Fairness ==
    /\ WF_vars(Deliver)
    /\ SF_vars(\E t \in Tasks : Progress(t))

SpecLive == Init /\ [][Next]_vars /\ Fairness

-----------------------------------------------------------------------------
(* is_allowed_origin on its own: every origin string and configuration of a  *)
(* bounded family goes through the function once                           *)

Alphabet == {"a", "A", ".", ":", "/"}

RECURSIVE StringsUpTo(_)
StringsUpTo(n) ==
    IF n = 0 THEN {<<>>}
    ELSE LET shorter == StringsUpTo(n - 1)
         IN  shorter \cup {Append(w, c) : w \in shorter, c \in Alphabet}

ProbeSchemes == {<<>>, HTTPS, HTTP, HTTPS \o HTTP}

ProbeOrigins == {p \o w : p \in ProbeSchemes, w \in StringsUpTo(MaxHost)}

ProbeExact == {<<>>, <<"a">>, <<"a", ".", "a">>, <<"h", "t", "t", "p">>}

ProbeSuffix == {<<>>, <<"a">>, <<".", "a">>, <<":", "/">>}

InitOrigin ==
    /\ now = 0
    /\ cache = <<>>
    /\ req = EmptyBag
    /\ out = None
    /\ upstream = 0
    /\ lastInsert = [k \in Keys |-> None]
    /\ probe \in [origin : ProbeOrigins, exact : ProbeExact, suffix : ProbeSuffix]
    /\ verdict = "unset"

\* one call of is_allowed_origin(origin, config)
CheckOrigin ==
    /\ verdict = "unset"
    /\ verdict' = IF is_allowed_origin(probe.origin,
                        [config EXCEPT !.allowed_origin_exact = probe.exact,
                                       !.allowed_origin_suffix = probe.suffix])
                  THEN "allowed" ELSE "denied"
    /\ UNCHANGED <<now, cache, req, out, upstream, lastInsert, probe>>

NextOrigin == CheckOrigin

SpecOrigin == InitOrigin /\ [][NextOrigin]_vars

-----------------------------------------------------------------------------
(* Properties *)

Is2xx(status) == 200 <= status /\ status < 300

\* the key the spec gives a request: path, plus '?' and the query if there is one
KeyOf(u) == IF u.query = None THEN u.path ELSE u.path \o "?" \o u.query[1]

\* the cache holds an entry for k that is younger than the TTL
Fresh(k) == k \in DOMAIN cache /\ now < cache[k].at + config.cache_ttl_seconds

Hit == out # None /\ out[1].resp.x_cache = Some("HIT")
Miss == out # None /\ out[1].resp.x_cache = Some("MISS")

\* What a step did, read off the two states of the step.
\* A request was received in this step: answered at once, or sent upstream
Received ==
    \/ out' # None /\ out'[1].sync # None
    \/ upstream' = upstream + 1
\* the tasks that this step started or moved to
NewTasks == {t \in BagToSet(req') : CopiesIn(t, req') > CopiesIn(t, req)}
\* the tasks that this step ended or moved on
GoneTasks == {t \in BagToSet(req) : CopiesIn(t, req) > CopiesIn(t, req')}
\* proxy_all answered the request received in this step
AnsweredByProxy == Received /\ out' # None /\ out'[1].key # None
\* the request received in this step went to the upstream
WentUpstream == upstream' = upstream + 1
\* task t got its response in this step
Answered(t) == t \in GoneTasks /\ out' # None /\ out'[1].dropped = ""
\* task t lost its connection in this step
WasDropped(t) == t \in GoneTasks /\ out' # None /\ out'[1].dropped # ""

\* C1: a request for a key the cache does not hold makes one upstream call
\* and, the status being 2xx, stores the result under the key; a request for
\* a key whose entry is still held and younger than the TTL makes no upstream
\* call and is answered X-Cache: HIT with the entry's status and body, which
\* are those of the response sent by the request that stored it.
C1_MissThenHit ==
    [][ /\ AnsweredByProxy =>
            LET k == out'[1].key[1]
            IN  /\ Fresh(k)
                /\ out'[1].calls = 0
                /\ out'[1].resp.x_cache = Some("HIT")
                /\ out'[1].resp.status = cache[k].status
                /\ out'[1].resp.body = cache[k].body
                /\ (lastInsert[k] # None /\ lastInsert[k][1].resp # None) =>
                      /\ out'[1].resp.status = lastInsert[k][1].resp[1].status
                      /\ out'[1].resp.body = lastInsert[k][1].resp[1].body
                /\ UNCHANGED <<req, cache>>
        /\ WentUpstream =>
            \E t \in NewTasks :
               /\ NewTasks = {t}
               /\ t.pc = "send" /\ t.calls = 1
               /\ ~Fresh(KeyOf(t.uri))
        /\ \A t \in GoneTasks :
            /\ (t.pc = "body" /\ Is2xx(t.status) /\ out' = None) =>
                  \E t2 \in NewTasks : t2.pc = "insert" /\ t2.calls = 1 /\ t2.uri = t.uri
            /\ (t.pc = "insert" /\ Answered(t)) =>
                  /\ Is2xx(t.status) /\ t.calls = 1
                  /\ KeyOf(t.uri) \in DOMAIN cache'
                  /\ cache'[KeyOf(t.uri)].status = t.status
                  /\ cache'[KeyOf(t.uri)].body = t.body
                  /\ out'[1].resp.x_cache = Some("MISS")
                  /\ out'[1].resp.status = t.status
                  /\ out'[1].resp.body = t.body
                  /\ out'[1].calls = 1
      ]_vars

\* a HIT that repeats the status and body of the response sent with the insert
C1_Witness ==
    /\ Hit
    /\ out[1].calls = 0
    /\ out[1].key # None
    /\ LET k == out[1].key[1]
       IN  /\ Fresh(k)
           /\ lastInsert[k] # None
           /\ lastInsert[k][1].resp # None
           /\ lastInsert[k][1].resp[1].status = out[1].resp.status
           /\ lastInsert[k][1].resp[1].body = out[1].resp.body

\* C2: every entry of the cache has a 2xx status; a fetch that ends with any
\* other status is answered with that status and X-Cache: MISS and writes
\* nothing to the cache.
C2_Only2xxCached ==
    [][ /\ \A k \in DOMAIN cache' : Is2xx(cache'[k].status)
        /\ \A t \in GoneTasks :
            (t.pc = "body" /\ ~Is2xx(t.status) /\ ~WasDropped(t)
               /\ ~(out' # None /\ out'[1].resp.status = 502)) =>
               /\ Answered(t)
               /\ out'[1].resp.status = t.status
               /\ out'[1].resp.x_cache = Some("MISS")
               /\ cache' = cache
      ]_vars

\* a 300 passed through as a MISS, the cache still empty
C2_Witness ==
    /\ Miss
    /\ out[1].resp.status = 300
    /\ cache = <<>>

\* C3: a lookup answers HIT only from an entry younger than the TTL, counted
\* from the entry's latest insert; an entry's time stamp is the time of that
\* insert, and a lookup leaves the cache, time stamps included, as it was.
C3_TtlLaw ==
    [][ /\ Received => cache' = cache
        /\ (out' # None /\ out'[1].resp.x_cache = Some("HIT")) =>
              /\ out'[1].key # None
              /\ out'[1].key[1] \in DOMAIN cache
              /\ now < cache[out'[1].key[1]].at + config.cache_ttl_seconds
        /\ \A k \in DOMAIN cache' :
              \/ k \in DOMAIN cache /\ cache'[k].at = cache[k].at
                                   /\ Value(cache'[k]) = Value(cache[k])
              \/ /\ cache'[k].at = now
                 /\ \E t \in GoneTasks : t.pc = "insert" /\ KeyOf(t.uri) = k
      ]_vars

\* a lookup has found an entry as old as the TTL and gone to the upstream
C3_Witness ==
    \E t \in Tasks : t.miss = "expired" /\ t.pc = "send"

DisallowedOrigin(o) ==
    /\ o.sync # None
    /\ o.sync[1].header # None
    /\ o.sync[1].header[1].ascii
    /\ ~is_allowed_origin(o.sync[1].header[1].text, config)

\* C5: a request that is not OPTIONS and has an Origin that is not allowed
\* is answered 403 in the step that receives it, with no upstream call, no
\* task started and the cache as it was; no task ever runs for such an origin.
C5_ForbiddenOrigin ==
    [][ /\ (out' # None /\ DisallowedOrigin(out'[1])
               /\ out'[1].sync[1].method # OPTIONS) =>
              /\ out'[1].resp.status = 403
              /\ out'[1].calls = 0
              /\ out'[1].key = None
              /\ out'[1].resp.x_cache = None
              /\ UNCHANGED <<cache, req, upstream, lastInsert>>
        /\ \A t \in NewTasks :
              t.origin = None \/ is_allowed_origin(t.origin[1], config)
        /\ \A m \in Methods \ {OPTIONS}, u \in Uris :
              upstream' # upstream =>
                 ~Receive(m, Some([ascii |-> TRUE, text |-> EvilOrigin]), u)
      ]_vars

\* a GET from a disallowed origin refused while the cache holds an entry
C5_Witness ==
    /\ out # None
    /\ DisallowedOrigin(out[1])
    /\ out[1].sync[1].method = GET
    /\ out[1].resp.status = 403
    /\ cache # <<>>

\* the Origin header of the request answered in out is readable and allowed
AllowedOrigin(o) ==
    /\ o.sync # None
    /\ o.sync[1].header # None
    /\ o.sync[1].header[1].ascii
    /\ is_allowed_origin(o.sync[1].header[1].text, config)

\* C6: an OPTIONS request is answered in the step that receives it, with no
\* upstream call, no task and the cache as it was: 204 with an empty body,
\* the request's own Origin string in Access-Control-Allow-Origin, the
\* allowed methods and headers and a max-age when the Origin is present and
\* allowed, 403 otherwise.
C6_Preflight ==
    [][ /\ (out' # None /\ out'[1].sync # None
               /\ out'[1].sync[1].method = OPTIONS) =>
              /\ out'[1].calls = 0
              /\ out'[1].key = None
              /\ out'[1].resp.x_cache = None
              /\ UNCHANGED <<cache, req, upstream, lastInsert>>
              /\ IF AllowedOrigin(out'[1])
                 THEN /\ out'[1].resp.status = 204
                      /\ out'[1].resp.body = ""
                      /\ out'[1].resp.allow_origin =
                            Some(out'[1].sync[1].header[1].text)
                      /\ out'[1].resp.allow_methods = Some("GET, OPTIONS")
                      /\ out'[1].resp.allow_headers = Some("Content-Type")
                      /\ out'[1].resp.max_age # None
                 ELSE out'[1].resp.status = 403
        /\ \A h \in OriginHeaders, u \in Uris :
              upstream' # upstream => ~Receive(OPTIONS, h, u)
      ]_vars

\* a preflight from an allowed origin answered while a task is in flight
C6_Witness ==
    /\ out # None
    /\ AllowedOrigin(out[1])
    /\ out[1].sync[1].method = OPTIONS
    /\ out[1].resp.status = 204
    /\ out[1].resp.allow_origin = Some(GoodOrigin)
    /\ req # EmptyBag

\* C7: a task answered while it waits for send() gets 502 and the JSON body
\* "Upstream request failed"; a task answered while it waits for the body
\* gets either its non-2xx result passed through or 502 and the JSON body
\* "Failed to read response"; in every such case the cache is as it was, so
\* the key is looked up with the same result as before.
C7_UpstreamFailure ==
    [][ \A t \in GoneTasks :
          /\ (t.pc = "send" /\ Answered(t)) =>
                /\ out'[1].resp.status = 502
                /\ out'[1].resp.body = "{\"error\": \"Upstream request failed\"}"
                /\ out'[1].resp.content_type = Some("application/json")
                /\ cache' = cache
          /\ (t.pc = "body" /\ Answered(t)) =>
                /\ \/ /\ out'[1].resp.status = t.status
                      /\ ~Is2xx(t.status)
                      /\ out'[1].resp.x_cache = Some("MISS")
                   \/ /\ out'[1].resp.status = 502
                      /\ out'[1].resp.body = "{\"error\": \"Failed to read response\"}"
                      /\ out'[1].resp.content_type = Some("application/json")
                      /\ out'[1].resp.x_cache = None
                /\ cache' = cache
                /\ cache_get(cache', KeyOf(t.uri), now') = cache_get(cache, KeyOf(t.uri), now)
      ]_vars

\* a body-read failure answered, its key still absent from the cache
C7_Witness ==
    /\ out # None
    /\ out[1].resp.status = 502
    /\ out[1].resp.body = "{\"error\": \"Failed to read response\"}"
    /\ out[1].key # None
    /\ out[1].key[1] \notin DOMAIN cache

\* C8: a task dropped while it waits for send() or for the body leaves the
\* cache as it was; an entry is written or rewritten only in a step of a task
\* that has received status, headers and whole body of one upstream reply,
\* and the entry is that reply.
C8_Cancellation ==
    [][ /\ \A t \in GoneTasks :
              (WasDropped(t) /\ t.pc \in {"send", "body"}) =>
                 cache' = cache /\ lastInsert' = lastInsert
        /\ \A k \in DOMAIN cache' :
              (k \notin DOMAIN cache \/ Value(cache'[k]) # Value(cache[k])
                 \/ cache'[k].at # cache[k].at) =>
                 \E t \in GoneTasks :
                    /\ t.pc = "insert"
                    /\ KeyOf(t.uri) = k
                    /\ Value(cache'[k]) \in UpstreamReplies
                    /\ cache'[k].status = t.status
                    /\ cache'[k].body = t.body
                    /\ cache'[k].content_type = t.content_type
      ]_vars

\* a task dropped while its body was still on the way, the cache still empty
C8_Witness ==
    /\ out # None
    /\ out[1].dropped = "body"
    /\ cache = <<>>

\* C9: the entry the cache holds under a key is, whole, the value of the
\* insert under that key that completed last, and a HIT carries the status,
\* body and content type of that insert.
C9_LastInsertWins ==
    [][ /\ \A k \in DOMAIN cache' :
              /\ lastInsert'[k] # None
              /\ Value(cache'[k]) = lastInsert'[k][1].value
        /\ AnsweredByProxy =>
              LET last == lastInsert[out'[1].key[1]]
              IN  /\ last # None
                  /\ out'[1].resp.status = last[1].value.status
                  /\ out'[1].resp.body = last[1].value.body
                  /\ out'[1].resp.content_type = last[1].value.content_type
      ]_vars

\* a HIT served from an entry whose insert replaced a different value
C9_Witness ==
    /\ Hit
    /\ out[1].key # None
    /\ LET last == lastInsert[out[1].key[1]]
       IN  /\ last # None
           /\ last[1].over
           /\ out[1].resp.body = last[1].value.body
           /\ out[1].resp.status = last[1].value.status

\* the host the spec describes: the origin without one leading "https://" or
\* "http://", cut at its first ':'
Starts(o, p) == Len(o) >= Len(p) /\ \A i \in 1..Len(p) : o[i] = p[i]
SchemeLen(o) == IF Starts(o, HTTPS) THEN 8 ELSE IF Starts(o, HTTP) THEN 7 ELSE 0
AfterScheme(o) == [i \in 1..(Len(o) - SchemeLen(o)) |-> o[i + SchemeLen(o)]]
Colons(s) == {i \in 1..Len(s) : s[i] = ":"}
HostEnd(s) == IF Colons(s) = {} THEN Len(s)
              ELSE (CHOOSE i \in Colons(s) : \A j \in Colons(s) : i <= j) - 1
HostOf(o) == [i \in 1..HostEnd(AfterScheme(o)) |-> AfterScheme(o)[i]]
EndsWith(h, p) ==
    \E n \in 0..Len(h) : [i \in 1..(Len(h) - n) |-> h[i + n]] = p

\* C10: is_allowed_origin(o) is true exactly when the host of o (one leading
\* "https://" or "http://" stripped, then cut at the first ':') equals the
\* configured exact string or ends with the configured suffix, letter case
\* and everything else compared as written.
C10_OriginRule ==
    verdict # "unset" =>
       ( verdict = "allowed" <=>
            \/ HostOf(probe.origin) = probe.exact
            \/ EndsWith(HostOf(probe.origin), probe.suffix) )

\* an origin with "http://" and a port, allowed by its suffix alone
C10_Witness ==
    /\ verdict = "allowed"
    /\ Starts(probe.origin, HTTP)
    /\ Colons(AfterScheme(probe.origin)) # {}
    /\ HostOf(probe.origin) # probe.exact
    /\ probe.suffix # <<>>

\* an origin of the form scheme://host[:port]: "https://" or "http://", a
\* host that is not empty and has no '/', '@', '?' or '#', and after it
\* nothing, or ':' and a port of digits
Digits == {"0", "1", "2", "3", "4", "5", "6", "7", "8", "9"}
NotInHost == {"/", "@", "?", "#"}
WellFormedOrigin(o) ==
    LET rest == AfterScheme(o)
        h == HostEnd(rest)
    IN  /\ SchemeLen(o) > 0
        /\ h >= 1
        /\ \A i \in 1..h : rest[i] \notin NotInHost
        /\ \/ h = Len(rest)
           \/ /\ Len(rest) >= h + 2
              /\ \A i \in (h + 2)..Len(rest) : rest[i] \in Digits

\* C11: is_allowed_origin is false for the empty string and for every origin
\* that is not scheme://host[:port], whatever exact and suffix strings are
\* configured; so an origin it allows is well formed.  Stated here for the
\* configurations whose two strings are not empty, where no origin is allowed
\* by an empty exact string or an empty suffix.
C11_MalformedRefused ==
    (verdict = "allowed" /\ probe.exact # <<>> /\ probe.suffix # <<>>) =>
       WellFormedOrigin(probe.origin)

\* C12: a request whose Origin header cannot be read as a string is answered
\* 403, whatever its method.
C12_UnreadableOriginRefused ==
    (out # None /\ out[1].sync # None /\ out[1].sync[1].header # None
        /\ ~out[1].sync[1].header[1].ascii) =>
       out[1].resp.status = 403

\* C13: a response built from a cached or fetched result has the stored
\* status and body, the stored content type when there is one and none
\* otherwise, Cache-Control: public, max-age=<configured TTL>, and X-Cache:
\* HIT exactly when it is the answer of the cache lookup of the request and
\* MISS exactly when it is the result of the upstream call the request made.
C13_ResponseConstruction ==
    [][ /\ (out' # None /\ out'[1].resp.x_cache # None) =>
              LET r == out'[1].resp
                  k == out'[1].key[1]
              IN  /\ out'[1].key # None
                  /\ r.cache_control =
                        Some("public, max-age=" \o ToString(config.cache_ttl_seconds))
                  /\ IF r.x_cache = Some("HIT")
                     THEN /\ out'[1].sync # None
                          /\ GoneTasks = {}
                          /\ out'[1].calls = 0
                          /\ k \in DOMAIN cache
                          /\ r.status = cache[k].status
                          /\ r.body = cache[k].body
                          /\ r.content_type = cache[k].content_type
                     ELSE /\ r.x_cache = Some("MISS")
                          /\ out'[1].sync = None
                          /\ out'[1].calls = 1
                          /\ \E t \in GoneTasks :
                                /\ KeyOf(t.uri) = k
                                /\ r.status = t.status
                                /\ r.content_type = t.content_type
                                /\ t.pc = "insert" => r.body = t.body
                                /\ t.pc = "body" =>
                                      \E reply \in UpstreamReplies :
                                         /\ reply.status = t.status
                                         /\ reply.content_type = t.content_type
                                         /\ reply.body = r.body
        /\ AnsweredByProxy => out'[1].resp.x_cache = Some("HIT")
        /\ \A t \in GoneTasks :
              (Answered(t) /\ t.pc = "insert") => out'[1].resp.x_cache = Some("MISS")
      ]_vars

\* a HIT built from an entry that has no content type
C13_Witness ==
    /\ Hit
    /\ out[1].resp.status = 200
    /\ out[1].resp.body = "b1"
    /\ out[1].resp.content_type = None
    /\ out[1].resp.cache_control = Some("public, max-age=1")

\* the Origin string of the request that out answers, if it has a readable one
OriginString(o) ==
    IF o.sync # None
    THEN IF o.sync[1].header # None /\ o.sync[1].header[1].ascii
         THEN Some(o.sync[1].header[1].text)
         ELSE None
    ELSE o.origin

\* out answers an OPTIONS request
IsPreflight(o) == o.sync # None /\ o.sync[1].method = OPTIONS

\* C14: a request that is not OPTIONS and has no Origin header is not refused
\* by the gate; one with an allowed Origin is not refused either, and its
\* response, whatever it is (a HIT, a MISS, a 502, a local answer), carries
\* Access-Control-Allow-Origin with the request's own Origin string, never a
\* wildcard, Access-Control-Allow-Methods and Vary: Origin.
C14_CorsHeaders ==
    (out # None /\ out[1].dropped = "" /\ ~IsPreflight(out[1])) =>
       LET o == out[1]
           origin == OriginString(o)
       IN  /\ (o.sync # None /\ o.sync[1].header = None) => o.resp.status # 403
           /\ (origin # None /\ is_allowed_origin(origin[1], config)) =>
                 /\ o.resp.status # 403
                 /\ o.resp.allow_origin = origin
                 /\ o.resp.allow_origin # Some(<<"*">>)
                 /\ o.resp.allow_methods = Some("GET, OPTIONS")
                 /\ o.resp.vary = Some("Origin")

\* a 502 sent to an allowed origin with the CORS headers on it
C14_Witness ==
    /\ out # None
    /\ out[1].resp.status = 502
    /\ out[1].origin = Some(GoodOrigin)
    /\ out[1].resp.allow_origin = Some(GoodOrigin)
    /\ out[1].resp.vary = Some("Origin")

\* C15: off /_health and /_stats, a request is handled the same whatever its
\* method, OPTIONS apart: the step that sends a request upstream is the same
\* step for every such method, with the same task (same key, same call,
\* same later caching); and a lookup answered from the cache is answered
\* from the entry under the key of its path and query, whatever method the
\* request has.
C15_MethodInsensitive ==
    [][ /\ WentUpstream =>
              \A t \in NewTasks :
                 /\ ~Routed(t.uri)
                 /\ \E h \in OriginHeaders : Receive(GET, h, t.uri)
                 /\ \A h \in OriginHeaders, m \in Methods \ {OPTIONS} :
                       Receive(GET, h, t.uri) <=> Receive(m, h, t.uri)
        /\ AnsweredByProxy =>
              LET k == out'[1].key[1]
                  m == out'[1].sync[1].method
              IN  /\ m # OPTIONS
                  /\ k \in Keys
                  /\ Fresh(k)
                  /\ out'[1].resp.x_cache = Some("HIT")
                  /\ out'[1].resp.status = cache[k].status
                  /\ out'[1].resp.body = cache[k].body
                  /\ \E h \in OriginHeaders, u \in Uris :
                        KeyOf(u) = k /\ Receive(m, h, u)
      ]_vars

\* a POST served as a HIT from an entry that an earlier request stored
C15_Witness ==
    /\ Hit
    /\ out[1].sync # None
    /\ out[1].sync[1].method = POST
    /\ out[1].key # None
    /\ lastInsert[out[1].key[1]] # None
    /\ lastInsert[out[1].key[1]][1].resp # None

\* C16: a request makes at most one upstream call.  A task in flight has made
\* exactly one; an answer given in the step that received the request (a
\* HIT, a preflight, a refusal of the gate, a local answer) has made none; a
\* 502 comes after exactly one call, from a task that is then gone; and the
\* count of calls grows only by one, in a step that starts a new task.
C16_NoRetry ==
    [][ /\ \A t \in BagToSet(req') : t.calls = 1
        /\ out' # None =>
              /\ out'[1].calls \in {0, 1}
              /\ out'[1].sync # None => out'[1].calls = 0 /\ upstream' = upstream
              /\ out'[1].resp.x_cache = Some("HIT") => out'[1].calls = 0
              /\ out'[1].resp.status \in {204, 403} => out'[1].calls = 0
              /\ out'[1].resp.status = 502 =>
                    /\ out'[1].calls = 1
                    /\ upstream' = upstream
                    /\ NewTasks = {}
                    /\ \E t \in GoneTasks : t.pc \in {"send", "body"}
        /\ upstream' # upstream =>
              /\ upstream' = upstream + 1
              /\ GoneTasks = {}
              /\ \E t \in NewTasks : NewTasks = {t} /\ t.pc = "send"
                                     /\ CopiesIn(t, req') = CopiesIn(t, req) + 1
        /\ \A t \in GoneTasks : \A u \in NewTasks :
              u.pc # "send" /\ u.calls = t.calls
      ]_vars

\* a body-read failure reported after the one call of its request, while a
\* second request has made its own
C16_Witness ==
    /\ out # None
    /\ out[1].resp.status = 502
    /\ out[1].resp.body = "{\"error\": \"Failed to read response\"}"
    /\ out[1].calls = 1
    /\ upstream = 2

\* the requests for the two local endpoints
LocalUris == {u \in Uris : u.path \in {"/_health", "/_stats"}}

\* C17: no request for /_health or /_stats starts a task or an upstream
\* call; a GET that proxy_all does not answer is answered in the step that
\* receives it, with the cache, the tasks and the clock as they were: 403
\* when the gate refuses its Origin, else 200 (always 200 with no Origin
\* header or an allowed one), and a 200 is the answer of /_health ("OK") or
\* of /_stats, which reports the configured TTL and capacity and the cache's
\* own count, in every state.
C17_ReadOnlyEndpoints ==
    [][ /\ \A t \in NewTasks : t.uri \notin LocalUris
        /\ (out' # None /\ out'[1].sync # None /\ out'[1].sync[1].method = GET
               /\ out'[1].key = None) =>
              /\ UNCHANGED <<cache, req, upstream, lastInsert, now>>
              /\ out'[1].resp.status \in {200, 403}
              /\ out'[1].calls = 0
              /\ (out'[1].sync[1].header = None \/ AllowedOrigin(out'[1])) =>
                    out'[1].resp.status = 200
              /\ out'[1].resp.status = 403 => DisallowedOrigin(out'[1])
              /\ out'[1].resp.status = 200 =>
                    \E u \in LocalUris :
                       /\ Receive(GET, out'[1].sync[1].header, u)
                       /\ u.path = "/_health" =>
                             out'[1].resp.body = "OK" /\ out'[1].resp.stats = None
                       /\ u.path = "/_stats" =>
                             /\ out'[1].resp.stats # None
                             /\ out'[1].resp.content_type = Some("application/json")
                             /\ out'[1].resp.stats[1].ttl_seconds =
                                   config.cache_ttl_seconds
                             /\ out'[1].resp.stats[1].max_capacity =
                                   config.cache_max_capacity
                             /\ out'[1].resp.stats[1].entry_count = entry_count(cache)
      ]_vars

\* /_stats read after two upstream calls, with an entry counted
C17_Witness ==
    /\ out # None
    /\ out[1].sync # None
    /\ out[1].sync[1].method = GET
    /\ out[1].resp.status = 200
    /\ out[1].resp.stats # None
    /\ out[1].resp.stats[1].entry_count = 1
    /\ out[1].resp.stats[1].max_capacity = config.cache_max_capacity
    /\ upstream = 2

\* C18: requests for the same key are not held back for one another: each
\* task that gets its 2xx result writes it under the key and answers MISS,
\* whether or not another task has written the key meanwhile, and after the
\* write the cache holds for that key one entry, the task's own, with every
\* other key as it was.
C18_NoSingleFlight ==
    [][ \A t \in GoneTasks :
          (Answered(t) /\ t.pc = "insert") =>
             LET k == KeyOf(t.uri)
             IN  /\ out'[1].resp.x_cache = Some("MISS")
                 /\ out'[1].calls = 1
                 /\ DOMAIN cache' = DOMAIN cache \cup {k}
                 /\ cache'[k].status = t.status
                 /\ cache'[k].body = t.body
                 /\ cache'[k].content_type = t.content_type
                 /\ cache'[k].at = now
                 /\ \A x \in DOMAIN cache \ {k} : cache'[x] = cache[x]
      ]_vars

\* two requests for the same key have both missed and both wait for send()
C18_Witness ==
    \E t \in Tasks :
       /\ t.pc = "send"
       /\ t.calls = 1
       /\ KeyOf(t.uri) \notin DOMAIN cache
       /\ \/ CopiesIn(t, req) = 2
          \/ \E t2 \in Tasks \ {t} : t2.pc = "send" /\ t2.uri = t.uri

\* the URL the spec gives the upstream call for key k
UrlOf(k) == config.upstream_url \o k

\* C19: the entry held under key k is, whole, one reply of the upstream, and
\* the reply of a completed call to the URL upstream-base + k; a HIT returns
\* the entry of the key of its request's own path and query, fetched from
\* that path and query, and two requests have the same key only if their
\* path and query are the same.
C19_CacheIntegrity ==
    [][ /\ \A k \in DOMAIN cache' :
              /\ lastInsert'[k] # None
              /\ lastInsert'[k][1].url = UrlOf(k)
              /\ Value(cache'[k]) = lastInsert'[k][1].value
              /\ Value(cache'[k]) \in UpstreamReplies
        /\ \A t \in GoneTasks :
              (t.pc = "insert" /\ cache' # cache) =>
                 /\ t.url = UrlOf(KeyOf(t.uri))
                 /\ cache'[KeyOf(t.uri)].body = t.body
                 /\ cache'[KeyOf(t.uri)].status = t.status
        /\ AnsweredByProxy =>
              LET k == out'[1].key[1]
              IN  /\ lastInsert[k] # None
                  /\ lastInsert[k][1].url = UrlOf(k)
                  /\ out'[1].resp.status = lastInsert[k][1].value.status
                  /\ out'[1].resp.body = lastInsert[k][1].value.body
                  /\ \A u \in Uris :
                        Receive(out'[1].sync[1].method, out'[1].sync[1].header, u) =>
                           /\ KeyOf(u) = k
                           /\ UrlOf(KeyOf(u)) = lastInsert[k][1].url
        /\ \A u1 \in Uris, u2 \in Uris : KeyOf(u1) = KeyOf(u2) => u1 = u2
      ]_vars

\* a HIT for "/a?q" while the cache holds entries fetched for "/a" and "/a?q"
C19_Witness ==
    /\ Hit
    /\ out[1].key = Some("/a?q")
    /\ lastInsert["/a?q"] # None
    /\ lastInsert["/a?q"][1].url = "https://up/a?q"
    /\ "/a" \in DOMAIN cache

\* the stages of a task, in the order it goes through them
Rank(pc) == CASE pc = "send" -> 1 [] pc = "body" -> 2 [] pc = "insert" -> 3

\* what one step does to the requests
OneResponseEach ==
    /\ out' # None => out = None
    /\ (out' # None /\ out'[1].sync # None) =>
          /\ req' = req
          /\ out'[1].dropped = ""
    /\ (out' # None /\ out'[1].sync = None) =>
          \E t \in GoneTasks :
             /\ GoneTasks = {t}
             /\ NewTasks = {}
             /\ BagCardinality(req') = BagCardinality(req) - 1
             /\ out'[1].key = Some(KeyOf(t.uri))
             /\ out'[1].origin = t.origin
    /\ (out' = None /\ req' # req) =>
          \/ /\ GoneTasks = {}
             /\ WentUpstream
             /\ BagCardinality(req') = BagCardinality(req) + 1
          \/ /\ BagCardinality(req') = BagCardinality(req)
             /\ \E t \in GoneTasks, u \in NewTasks :
                   /\ GoneTasks = {t}
                   /\ NewTasks = {u}
                   /\ u.uri = t.uri /\ u.origin = t.origin
                   /\ Rank(u.pc) = Rank(t.pc) + 1
    /\ (out' # None /\ out'[1].dropped = "") =>
          \/ out'[1].resp.status \in {403, 204, 502}
          \/ out'[1].resp.x_cache # None
          \/ out'[1].sync # None /\ out'[1].key = None
                /\ out'[1].resp.status \in {200, 405}

\* C20: every request gets one terminal response and no more: a request is
\* answered in the step that receives it or becomes one task; a task only
\* moves on from send() to the body to the insert, and leaves when it is
\* answered, once, or dropped; every response is 403, 204, 502, one built
\* from a cached or fetched result, or the local answer of /_health or
\* /_stats (200, or 405 to a method other than GET); and, every await that
\* can return returning in the end, the tasks in flight all leave.
C20_OneTerminalResponse ==
    /\ [][OneResponseEach]_vars
    /\ (req # EmptyBag) ~> (req = EmptyBag)

\* a task is answered while another request is still waiting for its call
C20_Witness ==
    /\ out # None
    /\ out[1].sync = None
    /\ out[1].dropped = ""
    /\ out[1].calls = 1
    /\ req # EmptyBag
    /\ upstream = 2

\* C20 as stated: every terminal response is a 403, a 204, a 502 or a
\* response built from a cached or fetched result.
C20_FourKindsOnly ==
    (out # None /\ out[1].dropped = "") =>
       \/ out[1].resp.status \in {403, 204, 502}
       \/ out[1].resp.x_cache # None

====
